---- MODULE Spec2Model ----
(***************************************************************************)
(* Kinetic Conversion Efficiency benchmark                                 *)
(* (src/kinetic_conversion_efficiency.py).                                 *)
(*                                                                         *)
(* Number representation.  The program computes with binary floating       *)
(* point.  The model keeps every quantity on a fixed grid of integers:     *)
(*   energy_consumed, energy_budget, energy_step : whole Joules (sums of   *)
(*       such values are exact in floating point as well);                 *)
(*   efficiency : hundredths (70 stands for 0.70);                         *)
(*   mass       : tenths of a kilogram (5 stands for 0.5);                 *)
(*   velocity   : multiples of 1/Scale;                                    *)
(*   velocity**2, delta_v_squared : multiples of 1/Scale^2;                *)
(*   S          : multiples of 1/Scale^2.                                  *)
(* Every operation that rounds in floating point rounds to nearest on the  *)
(* grid: the division of line 98, math.sqrt of line 99, the division of    *)
(* line 112.  velocity**2 is exact on the finer grid, which keeps the      *)
(* floating-point fact sqrt(fl(v*v)) = v and nothing more: sqrt followed   *)
(* by squaring is not the identity here, as it is not in the program.      *)
(***************************************************************************)
EXTENDS Integers, Sequences, FiniteSets

\* ------------------------------------------------------------------ bounds
\* Grid points per unit of velocity.
Scale == 100
\* Longest list of probe systems handed to run_experiment.
MaxSystems == 3
\* Largest energy budget of a probe system.
MaxBudget == 10
\* Largest |energy_step| an external caller of the stepper passes.
MaxStep == 5
\* Number of stepper calls an external caller makes.
MaxCalls == 3

\* --------------------------------------------------------------- constants
ENERGY_QUANTUM == 5

\* ------------------------------------------------------------- arithmetic
\* a / b rounded to the nearest grid point (b > 0).
RoundDiv(a, b) == (2 * a + b) \div (2 * b)

\* Smallest integer >= a / b (b > 0).
CeilDiv(a, b) == (a + b - 1) \div b

Abs(x) == IF x < 0 THEN -x ELSE x

Min(a, b) == IF a <= b THEN a ELSE b

RECURSIVE FloorSqrtIn(_, _, _)
\* Largest r in lo..hi with r * r <= x, given lo * lo <= x.
FloorSqrtIn(x, lo, hi) ==
    IF lo >= hi THEN lo
    ELSE LET mid == (lo + hi + 1) \div 2
         IN  IF mid * mid <= x THEN FloorSqrtIn(x, mid, hi)
             ELSE FloorSqrtIn(x, lo, mid - 1)

\* math.sqrt: the grid point nearest to the square root of x (x >= 0).
Sqrt(x) ==
    LET f == FloorSqrtIn(x, 0, Min(x, 46000))
    IN  IF x > f * f + f THEN f + 1 ELSE f

\* ------------------------------------------------------- data structures
\* SystemState()
FreshState == [velocity |-> 0, energy_consumed |-> 0]

SystemParameters(name, mass, efficiency, energy_budget, abstract) ==
    [name |-> name, mass |-> mass, efficiency |-> efficiency,
     energy_budget |-> energy_budget, abstract |-> abstract]

\* ------------------------------------------------------------ the stepper
\* usable_energy = params.efficiency * energy_step    (hundredths of a Joule)
UsableEnergy(params, energy_step) == params.efficiency * energy_step

\* delta_v_squared = (2.0 * usable_energy) / params.mass   (1/Scale^2)
DeltaVSquared(params, energy_step) ==
    RoundDiv(2 * UsableEnergy(params, energy_step) * 10 * Scale * Scale,
             100 * params.mass)

\* The early return of apply_energy_step.
Exhausted(state, params) == state.energy_consumed >= params.energy_budget

\* math.sqrt raises ValueError on a negative argument.
SqrtDomainError(state, params, energy_step) ==
    /\ ~Exhausted(state, params)
    /\ state.velocity * state.velocity + DeltaVSquared(params, energy_step) < 0

\* A slip that doubles the bookkeeping of the consumed energy.
ApplyEnergyStepDouble(state, params, energy_step) ==
    IF Exhausted(state, params) THEN state
    ELSE [velocity |-> Sqrt(state.velocity * state.velocity
                            + DeltaVSquared(params, energy_step)),
          energy_consumed |-> state.energy_consumed + 2 * energy_step]

\* A slip that books the usable fraction instead of the raw quantum.
ApplyEnergyStepUsable(state, params, energy_step) ==
    IF Exhausted(state, params) THEN state
    ELSE [velocity |-> Sqrt(state.velocity * state.velocity
                            + DeltaVSquared(params, energy_step)),
          energy_consumed |-> state.energy_consumed
                              + CeilDiv(UsableEnergy(params, energy_step), 100)]

\* A slip that subtracts the kinetic-energy gain.
ApplyEnergyStepMinus(state, params, energy_step) ==
    IF Exhausted(state, params) THEN state
    ELSE [velocity |-> Sqrt(Abs(state.velocity * state.velocity
                                - DeltaVSquared(params, energy_step))),
          energy_consumed |-> state.energy_consumed + energy_step]

\* A slip that drops the exhaustion guard.
ApplyEnergyStepNoGuard(state, params, energy_step) ==
    [velocity |-> Sqrt(state.velocity * state.velocity
                       + DeltaVSquared(params, energy_step)),
     energy_consumed |-> state.energy_consumed + energy_step]

\* A slip that adds the velocities instead of their squares.
ApplyEnergyStepLinear(state, params, energy_step) ==
    IF Exhausted(state, params) THEN state
    ELSE [velocity |-> state.velocity
                       + Sqrt(DeltaVSquared(params, energy_step)),
          energy_consumed |-> state.energy_consumed + energy_step]

\* A slip that forgets to square the old velocity.
ApplyEnergyStepNoSquare(state, params, energy_step) ==
    IF Exhausted(state, params) THEN state
    ELSE [velocity |-> Sqrt(state.velocity * Scale
                            + DeltaVSquared(params, energy_step)),
          energy_consumed |-> state.energy_consumed + energy_step]

\* apply_energy_step, for a call that returns: the state it leaves.
ApplyEnergyStep(state, params, energy_step) ==
    IF Exhausted(state, params) THEN state
    ELSE [velocity |-> Sqrt(state.velocity * state.velocity
                            + DeltaVSquared(params, energy_step)),
          energy_consumed |-> state.energy_consumed + energy_step]

\* ------------------------------------------------------------- the metric
\* A slip that multiplies instead of dividing.
KineticConversionEfficiencyTimes(state) ==
    IF state.energy_consumed <= 0 THEN 0
    ELSE state.velocity * state.energy_consumed * Scale

\* kinetic_conversion_efficiency
KineticConversionEfficiency(state) ==
    IF state.energy_consumed <= 0 THEN 0
    ELSE RoundDiv(state.velocity * Scale, state.energy_consumed)

\* ------------------------------------------------------------- the driver
\* A slip that takes the boundary into the loop.
LoopCondInclusive(state, params) == state.energy_consumed <= params.energy_budget

\* The condition of the while loop of simulate_system.
LoopCond(state, params) == state.energy_consumed < params.energy_budget

\* The record simulate_system returns.
ResultRecord(params, state) ==
    [system |-> params.name,
     final_velocity |-> state.velocity,
     energy_consumed |-> state.energy_consumed,
     S |-> KineticConversionEfficiency(state),
     abstract |-> params.abstract]

\* ------------------------------------------------------------- the runner
RECURSIVE InsertDesc(_, _)
\* seq is sorted by S descending; r goes behind every record with S >= r.S.
InsertDesc(seq, r) ==
    IF seq = <<>> THEN <<r>>
    ELSE IF Head(seq).S >= r.S THEN <<Head(seq)>> \o InsertDesc(Tail(seq), r)
         ELSE <<r>> \o seq

RECURSIVE SortInto(_, _)
SortInto(acc, seq) ==
    IF seq = <<>> THEN acc
    ELSE SortInto(InsertDesc(acc, Head(seq)), Tail(seq))

\* A slip that leaves out reverse=True.
SortedAscending(seq) ==
    LET rev[i \in 1..Len(seq)] == SortInto(<<>>, seq)[Len(seq) + 1 - i]
    IN  [i \in 1..Len(seq) |-> rev[i]]

\* A slip that sorts correctly but loses the last record.
SortedDropLast(seq) ==
    LET s == SortInto(<<>>, seq)
    IN  IF Len(s) > 1 THEN SubSeq(s, 1, Len(s) - 1) ELSE s

\* sorted(results, key=lambda x: x["S"], reverse=True): stable, descending.
SortedByS(seq) == SortInto(<<>>, seq)

\* ------------------------------------------------------------ the catalog
\* benchmark_suite()
BenchmarkSuite ==
    << SystemParameters("Agile Robot", 5, 70, 60, FALSE),
       SystemParameters("Electric Vehicle", 10, 80, 100, FALSE),
       SystemParameters("AI Agent (Abstract)", 10, 50, 50, TRUE) >>

\* Well-formed systems handed to run_experiment besides the catalog, with
\* budgets that are negative, zero, no multiple of the quantum, and above.
ProbeSystems ==
    { SystemParameters("probe", m, e, b, FALSE) :
        m \in {5, 10}, e \in {50, 100}, b \in {-3, 0, 3, MaxBudget} }

RECURSIVE SeqsUpTo(_, _)
SeqsUpTo(S, n) ==
    IF n = 0 THEN {<<>>}
    ELSE LET shorter == SeqsUpTo(S, n - 1)
         IN  shorter \cup { Append(s, x) : s \in { t \in shorter : Len(t) = n - 1 },
                                            x \in S }

SystemLists == {BenchmarkSuite} \cup SeqsUpTo(ProbeSystems, MaxSystems)

\* =========================================================================
\* State
\* =========================================================================
VARIABLES
    systems,    \* run_experiment: the argument
    idx,        \* run_experiment: position of the for loop in systems
    results,    \* run_experiment: the list results
    output,     \* run_experiment: the list it returns
    pc,         \* "for" | "while" | "done" ("idle": run_experiment is not run)
    state,      \* simulate_system: the local SystemState
    iters,      \* simulate_system: iterations of the while loop so far
    hp,         \* external caller of the stepper: params
    hs,         \* external caller of the stepper: state
    hprev,      \* external caller: state before the last call that returned
    htrace,     \* external caller: the energy steps passed so far
    hpc,        \* "ready" | "raised"
    op,         \* order experiment: params
    o0,         \* order experiment: starting state
    oa,         \* order experiment: first quantum
    ob,         \* order experiment: second quantum
    oleft,      \* order experiment: state of the run a then b
    oright,     \* order experiment: state of the run b then a
    opc         \* "idle" | "first" | "second" | "done"

expVars == <<systems, idx, results, output, pc, state, iters>>
stepVars == <<hp, hs, hprev, htrace, hpc>>
orderVars == <<op, o0, oa, ob, oleft, oright, opc>>
vars == <<systems, idx, results, output, pc, state, iters,
          hp, hs, hprev, htrace, hpc, op, o0, oa, ob, oleft, oright, opc>>

IdleParams == SystemParameters("probe", 10, 100, 0, FALSE)

ExpIdle ==
    /\ systems = <<>> /\ idx = 1 /\ results = <<>> /\ output = <<>>
    /\ pc = "idle" /\ state = FreshState /\ iters = 0

StepIdle ==
    /\ hp = IdleParams /\ hs = FreshState /\ hprev = FreshState
    /\ htrace = <<>> /\ hpc = "idle"

OrderIdle ==
    /\ op = IdleParams /\ o0 = FreshState /\ oa = 0 /\ ob = 0
    /\ oleft = FreshState /\ oright = FreshState /\ opc = "idle"

\* =========================================================================
\* run_experiment / simulate_system
\* =========================================================================
params == systems[idx]

\* run_experiment is entered: results = [], the for loop is at its head.
ExpInit(lists) ==
    /\ systems \in lists
    /\ idx = 1
    /\ results = <<>>
    /\ output = <<>>
    /\ pc = "for"
    /\ state = FreshState
    /\ iters = 0

\* for system in systems: simulate_system(system) starts: state = SystemState()
ForBody ==
    /\ pc = "for"
    /\ idx <= Len(systems)
    /\ state' = FreshState
    /\ iters' = 0
    /\ pc' = "while"
    /\ UNCHANGED <<systems, idx, results, output>>
    /\ UNCHANGED <<stepVars, orderVars>>

\* One iteration of the while loop: apply_energy_step(state, params, ENERGY_QUANTUM)
LoopStep ==
    /\ pc = "while"
    /\ LoopCond(state, params)
    /\ ~SqrtDomainError(state, params, ENERGY_QUANTUM)
    /\ state' = ApplyEnergyStep(state, params, ENERGY_QUANTUM)
    /\ iters' = iters + 1
    /\ UNCHANGED <<systems, idx, results, output, pc>>
    /\ UNCHANGED <<stepVars, orderVars>>

\* The loop ends; the record is built and appended to results.
LoopExit ==
    /\ pc = "while"
    /\ ~LoopCond(state, params)
    /\ results' = Append(results, ResultRecord(params, state))
    /\ idx' = idx + 1
    /\ pc' = "for"
    /\ UNCHANGED <<systems, output, state, iters>>
    /\ UNCHANGED <<stepVars, orderVars>>

\* The for loop is over: return sorted(results, ...)
Return ==
    /\ pc = "for"
    /\ idx > Len(systems)
    /\ output' = SortedByS(results)
    /\ pc' = "done"
    /\ UNCHANGED <<systems, idx, results, state, iters>>
    /\ UNCHANGED <<stepVars, orderVars>>

Init == ExpInit(SystemLists) /\ StepIdle /\ OrderIdle

Next == ForBody \/ LoopStep \/ LoopExit \/ Return

Spec == Init /\ [][Next]_vars

\* The lists of the fair specification: one system shorter.
ShortSystemLists == {BenchmarkSuite} \cup SeqsUpTo(ProbeSystems, MaxSystems - 1)

InitFair == ExpInit(ShortSystemLists) /\ StepIdle /\ OrderIdle

\* The program runs to completion: it is sequential and nothing suspends it.
FairSpec == InitFair /\ [][Next]_vars /\ WF_vars(Next)

\* =========================================================================
\* An external caller of apply_energy_step
\* =========================================================================
\* The energy steps a caller passes: negative, zero and positive ones.
Steps == (-MaxStep)..MaxStep

\* Well-formed systems of the caller, with budgets that a few calls exhaust.
CallerSystems ==
    { SystemParameters("probe", m, e, b, FALSE) :
        m \in {5, 10}, e \in {70, 100}, b \in {0, 4, 2 * MaxStep} }

StepInit ==
    /\ hp \in CallerSystems
    /\ hs = FreshState
    /\ hprev = FreshState
    /\ htrace = <<>>
    /\ hpc = "ready"

\* apply_energy_step(hs, hp, e) returns.
CallReturns(e) ==
    /\ hpc = "ready"
    /\ Len(htrace) < MaxCalls
    /\ ~SqrtDomainError(hs, hp, e)
    /\ hs' = ApplyEnergyStep(hs, hp, e)
    /\ hprev' = hs
    /\ htrace' = Append(htrace, e)
    /\ UNCHANGED <<hp, hpc>>
    /\ UNCHANGED <<expVars, orderVars>>

\* apply_energy_step(hs, hp, e) raises in math.sqrt, before any assignment.
CallRaises(e) ==
    /\ hpc = "ready"
    /\ Len(htrace) < MaxCalls
    /\ SqrtDomainError(hs, hp, e)
    /\ hpc' = "raised"
    /\ UNCHANGED <<hp, hs, hprev, htrace>>
    /\ UNCHANGED <<expVars, orderVars>>

StepNext ==
    \/ \E e \in Steps : CallReturns(e)
    \/ \E e \in Steps : CallRaises(e)

InitStep == ExpIdle /\ StepInit /\ OrderIdle

SpecStep == InitStep /\ [][StepNext]_vars

\* =========================================================================
\* Two quanta applied in both orders
\* =========================================================================
\* Starting states: fresh, moving, partly spent, spent.
StartStates ==
    { [velocity |-> v, energy_consumed |-> e] :
        v \in {0, 2 * Scale}, e \in {0, 2, 2 * MaxStep} }

OrderInit ==
    /\ op \in CallerSystems
    /\ o0 \in StartStates
    /\ oa \in 0..MaxStep
    /\ ob \in 0..MaxStep
    /\ oleft = o0
    /\ oright = o0
    /\ opc = "first"

\* The first call of each run: a on the left, b on the right.
ApplyFirst ==
    /\ opc = "first"
    /\ oleft' = ApplyEnergyStep(oleft, op, oa)
    /\ oright' = ApplyEnergyStep(oright, op, ob)
    /\ opc' = "second"
    /\ UNCHANGED <<op, o0, oa, ob>>
    /\ UNCHANGED <<expVars, stepVars>>

\* The second call of each run: b on the left, a on the right.
ApplySecond ==
    /\ opc = "second"
    /\ oleft' = ApplyEnergyStep(oleft, op, ob)
    /\ oright' = ApplyEnergyStep(oright, op, oa)
    /\ opc' = "done"
    /\ UNCHANGED <<op, o0, oa, ob>>
    /\ UNCHANGED <<expVars, stepVars>>

OrderNext == ApplyFirst \/ ApplySecond

InitOrder == ExpIdle /\ StepIdle /\ OrderInit

SpecOrder == InitOrder /\ [][OrderNext]_vars

\* =========================================================================
\* Properties of simulate_system and run_experiment (Spec, FairSpec)
\* =========================================================================
\* The system whose simulation filled results[i].
BudgetOf(i) == systems[i].energy_budget

\* C1: for a positive budget, energy_consumed stays below budget + quantum in
\* every state of the run, and the reported energy_consumed lies in
\* [energy_budget, energy_budget + ENERGY_QUANTUM).
C1_EnergyWithinOneQuantum ==
    /\ (pc = "while" /\ params.energy_budget > 0)
          => state.energy_consumed < params.energy_budget + ENERGY_QUANTUM
    /\ \A i \in 1..Len(results) :
          BudgetOf(i) > 0
             => /\ BudgetOf(i) <= results[i].energy_consumed
                /\ results[i].energy_consumed < BudgetOf(i) + ENERGY_QUANTUM

\* A run has returned a strict overshoot, and another one landed on its budget.
C1_Witness ==
    /\ \E i \in 1..Len(results) :
          BudgetOf(i) > 0 /\ results[i].energy_consumed > BudgetOf(i)
    /\ \E i \in 1..Len(results) :
          BudgetOf(i) > 0 /\ results[i].energy_consumed = BudgetOf(i)

\* C2: for a positive budget the loop ends, after exactly
\* ceil(energy_budget / ENERGY_QUANTUM) iterations, each of which raises
\* energy_consumed by ENERGY_QUANTUM.
C2_LoopTerminatesAfterCeil ==
    /\ <>(pc = "done")
    /\ []((pc = "for" /\ idx > 1 /\ BudgetOf(idx - 1) > 0)
            => iters = CeilDiv(BudgetOf(idx - 1), ENERGY_QUANTUM))
    /\ [][(pc = "while" /\ pc' = "while")
            => state'.energy_consumed = state.energy_consumed + ENERGY_QUANTUM]_vars

\* The experiment is over and its last loop ran more than once.
C2_Witness ==
    /\ pc = "done"
    /\ Len(systems) > 0
    /\ BudgetOf(Len(systems)) > 0
    /\ iters >= 2

\* seq is ordered by S, descending.
SortedDescending(seq) ==
    \A i, j \in 1..Len(seq) : i < j => seq[i].S >= seq[j].S

\* Number of positions of seq that hold r.
Count(seq, r) == Cardinality({ i \in 1..Len(seq) : seq[i] = r })

\* a and b hold the same records, each as often.
SameRecords(a, b) ==
    /\ Len(a) = Len(b)
    /\ \A i \in 1..Len(a) : Count(a, a[i]) = Count(b, a[i])

\* C3: run_experiment returns one record per input system, a permutation of
\* the records of the simulations, ordered by S descending.
C3_OneRecordEachSortedDescending ==
    pc = "done"
       => /\ Len(output) = Len(systems)
          /\ Len(results) = Len(systems)
          /\ \A i \in 1..Len(results) :
                /\ results[i].system = systems[i].name
                /\ results[i].abstract = systems[i].abstract
          /\ SameRecords(output, results)
          /\ SortedDescending(output)

\* Three records were returned, in another order than they were produced.
C3_Witness ==
    /\ pc = "done"
    /\ Len(output) = 3
    /\ output # results
    /\ output[1].S > output[2].S
    /\ output[2].S > output[3].S

\* C4: on the benchmark catalog the records come out as Agile Robot, AI Agent
\* (Abstract), Electric Vehicle, with strictly decreasing S.
C4_BenchmarkOrder ==
    (pc = "done" /\ systems = BenchmarkSuite)
       => /\ Len(output) = 3
          /\ output[1].system = "Agile Robot"
          /\ output[2].system = "AI Agent (Abstract)"
          /\ output[3].system = "Electric Vehicle"
          /\ output[1].S > output[2].S
          /\ output[2].S > output[3].S

\* The benchmark has run: 12, 20 and 10 quanta were spent.
C4_Witness ==
    /\ pc = "done"
    /\ systems = BenchmarkSuite
    /\ results[1].energy_consumed = 60
    /\ results[2].energy_consumed = 100
    /\ results[3].energy_consumed = 50

\* C5: within a run velocity starts at 0 and no call of apply_energy_step
\* lowers it.
C5_VelocityNeverDecreases ==
    /\ []((pc = "while" /\ iters = 0) => state.velocity = 0)
    /\ [][(pc = "while" /\ pc' = "while")
            => state'.velocity >= state.velocity]_vars

\* A run is several quanta in and moving.
C5_Witness ==
    /\ pc = "while"
    /\ iters >= 2
    /\ state.velocity > 0

\* C7: a system with a budget <= 0 gets no stepper call and the record
\* final_velocity = 0, energy_consumed = 0, S = 0.
C7_NonPositiveBudgetZeroRecord ==
    /\ (pc = "while" /\ params.energy_budget <= 0) => iters = 0
    /\ (pc = "for" /\ idx > 1 /\ BudgetOf(idx - 1) <= 0) => iters = 0
    /\ \A i \in 1..Len(results) :
          BudgetOf(i) <= 0
             => /\ results[i].final_velocity = 0
                /\ results[i].energy_consumed = 0
                /\ results[i].S = 0

\* Records of a negative and of a zero budget were returned.
C7_Witness ==
    /\ pc = "done"
    /\ \E i \in 1..Len(results) : BudgetOf(i) < 0
    /\ \E i \in 1..Len(results) : BudgetOf(i) = 0

\* S is what the metric returns on a state with this velocity and energy:
\* 0 without consumed energy, else the rounded quotient.
IsMetricOf(S, velocity, energy_consumed) ==
    /\ S >= 0
    /\ energy_consumed <= 0 => S = 0
    /\ energy_consumed > 0
          => 2 * Abs(S * energy_consumed - velocity * Scale) <= energy_consumed

\* C8: the metric is 0 when energy_consumed <= 0, else velocity over
\* energy_consumed; it is >= 0 on every state of a run; computing it leaves
\* the state as it was.
C8_MetricGuardedNonNegativePure ==
    /\ [](pc # "idle" => IsMetricOf(KineticConversionEfficiency(state),
                                    state.velocity, state.energy_consumed))
    /\ [](\A i \in 1..Len(results) :
             IsMetricOf(results[i].S, results[i].final_velocity,
                        results[i].energy_consumed))
    /\ [][(pc = "while" /\ pc' = "for") => state' = state]_vars

\* Records with a zero metric and with a positive metric were returned.
C8_Witness ==
    /\ pc = "done"
    /\ \E i \in 1..Len(results) :
          results[i].energy_consumed = 0 /\ results[i].S = 0
    /\ \E i \in 1..Len(results) :
          results[i].energy_consumed > 0 /\ results[i].S > 0

\* =========================================================================
\* Properties of apply_energy_step under an external caller (SpecStep)
\* =========================================================================
LastStep == htrace[Len(htrace)]

\* The last call found the budget not yet spent, hence so did every call.
LastCallApplied == Len(htrace) > 0 /\ hprev.energy_consumed < hp.energy_budget

\* Every step passed so far was the same quantum.
SameQuanta == \A i \in 1..Len(htrace) : htrace[i] = htrace[1]

\* C6: a call on a state with energy_consumed >= energy_budget changes
\* neither velocity nor energy_consumed, whatever the step; so the state stays
\* what it was at exhaustion.
C6_ExhaustedCallIsNoOp ==
    [][hs.energy_consumed >= hp.energy_budget => hs' = hs]_vars

\* Positive steps spent a positive budget, and a later non-zero step was passed.
C6_Witness ==
    /\ Len(htrace) >= 2
    /\ hp.energy_budget > 0
    /\ hprev.energy_consumed >= hp.energy_budget
    /\ LastStep # 0
    /\ hs = hprev
    /\ hs.velocity > 0

GuardAlike ==
    \/ oa = ob
    \/ o0.energy_consumed >= op.energy_budget
    \/ /\ o0.energy_consumed + oa < op.energy_budget
       /\ o0.energy_consumed + ob < op.energy_budget

====
